---------------------------- MODULE Spec2Model ----------------------------
(***************************************************************************)
(* A model of gslib/commands/ls.py, the "ls" command of gsutil:            *)
(*   RunCommand                      the command entry point               *)
(*   _ExpandUriAndPrintInfo          the breadth-first expander            *)
(*   _BuildBlrExpansionForUriOnlyBlr the resolution of a user-given URI    *)
(*   _PrintInfoAboutBucketListingRef the per-object printer                *)
(*   _PrintBucketInfo                the bucket summarizer                 *)
(*                                                                         *)
(* Strings are sequences of one-character strings.  A URI string is        *)
(* written without its scheme: "gs://p/a/b" is <<"p","/","a","/","b">>.    *)
(***************************************************************************)
EXTENDS Integers, Sequences, FiniteSets, TLC

(***************************************************************************)
(* Bounds of the model.                                                    *)
(***************************************************************************)
\* The largest number of objects held by bucket "p".
MaxObjs == 3
\* The largest number of URI arguments of one command.
MaxArgs == 2

(***************************************************************************)
(* Strings.                                                                *)
(***************************************************************************)
SLASH == "/"
STAR == "*"

\* The rank of a character in the ASCII order ('*' < '/' < letters).
CharRank(c) ==
  CASE c = "*" -> 1
    [] c = "/" -> 2
    [] c = "a" -> 3
    [] c = "b" -> 4
    [] c = "c" -> 5
    [] c = "d" -> 6
    [] c = "p" -> 7
    [] c = "q" -> 8
    [] OTHER -> 9

\* s < t in the lexicographic order.
RECURSIVE StrLess(_, _)
StrLess(s, t) ==
  IF t = <<>> THEN FALSE
  ELSE IF s = <<>> THEN TRUE
  ELSE IF Head(s) = Head(t) THEN StrLess(Tail(s), Tail(t))
  ELSE CharRank(Head(s)) < CharRank(Head(t))

\* The strings of a finite set, in ascending order.
RECURSIVE SortStrings(_)
SortStrings(S) ==
  IF S = {} THEN <<>>
  ELSE LET m == CHOOSE x \in S : \A y \in S \ {x} : StrLess(x, y)
       IN <<m>> \o SortStrings(S \ {m})

\* str.rstrip('/')
RECURSIVE RStrip(_)
RStrip(s) ==
  IF s # <<>> /\ s[Len(s)] = SLASH THEN RStrip(SubSeq(s, 1, Len(s) - 1)) ELSE s

\* str.endswith('//')
EndsWithDoubleSlash(s) ==
  Len(s) >= 2 /\ s[Len(s)] = SLASH /\ s[Len(s) - 1] = SLASH

\* The number of '/' in s.
SlashCount(s) == Cardinality({i \in 1..Len(s) : s[i] = SLASH})

\* The index of the first '/' of s, or 0.
FirstSlash(s) ==
  IF \E i \in 1..Len(s) : s[i] = SLASH
  THEN CHOOSE i \in 1..Len(s) : s[i] = SLASH /\ \A j \in 1..(i - 1) : s[j] # SLASH
  ELSE 0

\* gslib.wildcard_iterator.ContainsWildcard, on the wildcard of this model.
ContainsWildcard(s) == \E i \in 1..Len(s) : s[i] = STAR

\* Whether s holds the recursive wildcard "**".
ContainsDoubleStar(s) == \E i \in 1..(Len(s) - 1) : s[i] = STAR /\ s[i + 1] = STAR

\* Whether string s matches wildcard pattern pat: "*" stands for any run of
\* characters other than '/', "**" for any run of characters.
RECURSIVE GlobMatch(_, _)
GlobMatch(pat, s) ==
  IF pat = <<>> THEN s = <<>>
  ELSE IF Head(pat) = STAR
  THEN IF Len(pat) >= 2 /\ pat[2] = STAR
       THEN \E k \in 0..Len(s) :
              GlobMatch(SubSeq(pat, 3, Len(pat)), SubSeq(s, k + 1, Len(s)))
       ELSE \E k \in 0..Len(s) :
              /\ \A i \in 1..k : s[i] # SLASH
              /\ GlobMatch(Tail(pat), SubSeq(s, k + 1, Len(s)))
  ELSE s # <<>> /\ Head(s) = Head(pat) /\ GlobMatch(Tail(pat), Tail(s))


(***************************************************************************)
(* The storage and the command line.                                       *)
(***************************************************************************)
VARIABLES
  store,               \* bucket name -> the set of object names it holds
  listing_style,       \* ListingStyle: "SHORT", "LONG" or "LONG_LONG"
  recursion_requested, \* -r / -R
  get_bucket_info,     \* -b
  args_left,           \* the number of URI arguments not yet processed
  pc,                  \* "args", "expand", "done" or "failed"
  uri,                 \* the StorageUri of the argument being processed
  blrs_to_expand,      \* the expander's queue
  num_objs,
  num_bytes,
  expanding_top_level,
  printed_one,
  num_expanded_blrs,
  total_objs,
  total_bytes,
  got_nomatch_errors,
  raised,              \* the exception that ended the command, or "none"
  out,                 \* the lines printed for the argument being processed
  lines_before,        \* the number of lines printed for earlier arguments
  total_line,          \* the TOTAL line: <<>> until printed
  returned,            \* the (count, bytes) pair each argument contributed
  popped,              \* the references popped by the running expansion
  enqueued,            \* the references enqueued by the running expansion
  queries,             \* the matching-service queries of the running expansion
  bucket_fetches,      \* the bucket metadata requests of the bucket listing
  unmatched,           \* the arguments so far whose resolution yielded nothing
  args_given,          \* whether the command line holds URI arguments
  fault,               \* the storage request that fails, if any
  run,                 \* 1 in a run of the command, 2 when it is run again
  first                \* what the first run printed and how it ended

vars == <<store, listing_style, recursion_requested, get_bucket_info,
          args_left, pc, uri, blrs_to_expand, num_objs, num_bytes,
          expanding_top_level, printed_one, num_expanded_blrs, total_objs,
          total_bytes, got_nomatch_errors, raised, out, lines_before,
          total_line, returned, popped, enqueued, queries, bucket_fetches,
          unmatched, args_given, fault, run, first>>

\* The buckets of the provider.
BucketNames == {<<"p">>, <<"q">>}

\* The object names a bucket may hold: a top-level object, one sharing its
\* name as a prefix, objects one and two levels down (under a subdirectory
\* named like the top-level object, and under a second one), an object whose
\* name begins with '/', and one whose name holds "//".
ObjectNames ==
  { <<"a">>,
    <<"a", "b">>,
    <<"a", "/", "b">>,
    <<"a", "/", "c", "/", "d">>,
    <<"c", "/", "a">>,
    <<"/", "a">>,
    <<"c", "/", "/", "b">> }

\* The URI arguments of the command line: the provider, a bucket, every
\* bucket, no bucket, an object or subdirectory name, a subdirectory with
\* its trailing delimiter, and three wildcards over the objects of "p".
ArgUris ==
  { <<>>,
    <<"p">>,
    <<"*">>,
    <<"x", "*">>,
    <<"p", "/", "a">>,
    <<"p", "/", "c", "/">>,
    <<"p", "/", "a", "*">>,
    <<"p", "/", "*">>,
    <<"p", "/", "*", "*">> }

ListingStyles == {"SHORT", "LONG", "LONG_LONG"}

\* The size of the object named n.
ObjSize(n) == Len(n) - 1

(***************************************************************************)
(* boto's StorageUri and gslib's BucketListingRef.                         *)
(***************************************************************************)
\* suri_builder.StorageUri(uri_str)
StorageUri(s) ==
  LET i == FirstSlash(s)
  IN IF i = 0
     THEN [bucket_name |-> s, object_name |-> <<>>]
     ELSE [bucket_name |-> SubSeq(s, 1, i - 1),
           object_name |-> SubSeq(s, i + 1, Len(s))]

\* str(uri): a bucket URI is written with its trailing '/'.
UriString(u) ==
  IF u.bucket_name = <<>> THEN <<>>
  ELSE u.bucket_name \o <<SLASH>> \o u.object_name

names_provider(u) == u.bucket_name = <<>>
names_bucket(u) == u.bucket_name # <<>> /\ u.object_name = <<>>

\* A key or a prefix is a sequence of at most one element (<<>> is None).
BucketListingRef(u, key, prefix) == [uri |-> u, key |-> key, prefix |-> prefix]

HasKey(blr) == blr.key # <<>>
HasPrefix(blr) == blr.prefix # <<>>
NamesBucket(blr) == names_bucket(blr.uri)
GetUriString(blr) == UriString(blr.uri)
GetRStrippedUriString(blr) == RStrip(GetUriString(blr))

\* '%s://%s/%s' % (uri.scheme, obj.bucket.name, obj.name)
UriStrForObj(u, obj) == obj.bucket \o <<SLASH>> \o obj.name

(***************************************************************************)
(* The matching service (gslib.wildcard_iterator).                         *)
(***************************************************************************)
\* The buckets a bucket pattern names, in the service's order.
MatchingBuckets(bucket_pat) ==
  IF ContainsWildcard(bucket_pat)
  THEN SortStrings({b \in BucketNames : GlobMatch(bucket_pat, b)})
  ELSE <<bucket_pat>>

\* The names of the objects of bucket b that match the object pattern.
MatchingKeys(b, pat) == {n \in store[b] : GlobMatch(pat, n)}

\* The subdirectory prefixes of bucket b that match the object pattern: the
\* names up to a delimiter whose part before that delimiter matches.  The
\* recursive wildcard lists objects only.
MatchingPrefixes(b, pat) ==
  IF ContainsDoubleStar(pat) THEN {}
  ELSE UNION { { SubSeq(n, 1, i) :
                   i \in { j \in 1..Len(n) :
                             /\ n[j] = SLASH
                             /\ GlobMatch(pat, SubSeq(n, 1, j - 1)) } } :
               n \in store[b] }

KeyRef(b, n) ==
  BucketListingRef([bucket_name |-> b, object_name |-> n],
                   <<[name |-> n, size |-> ObjSize(n), bucket |-> b]>>, <<>>)

PrefixRef(b, n) ==
  BucketListingRef([bucket_name |-> b, object_name |-> n], <<>>, <<n>>)

\* The references one bucket yields for an object pattern: its matching
\* objects, then its matching subdirectories, each in ascending order.
RefsOfBucket(b, pat) ==
  LET keys == SortStrings(MatchingKeys(b, pat))
      prefixes == SortStrings(MatchingPrefixes(b, pat))
  IN [i \in 1..Len(keys) |-> KeyRef(b, keys[i])]
     \o [i \in 1..Len(prefixes) |-> PrefixRef(b, prefixes[i])]

RECURSIVE RefsOfBuckets(_, _)
RefsOfBuckets(bs, pat) ==
  IF bs = <<>> THEN <<>>
  ELSE RefsOfBucket(Head(bs), pat) \o RefsOfBuckets(Tail(bs), pat)

\* exp_handler.WildcardIterator(uri_str): the references the pattern yields.
WildcardIterator(s) ==
  LET u == StorageUri(s)
      bs == MatchingBuckets(u.bucket_name)
  IN IF names_bucket(u)
     THEN [i \in 1..Len(bs) |->
             BucketListingRef([bucket_name |-> bs[i], object_name |-> <<>>],
                              <<>>, <<>>)]
     ELSE RefsOfBuckets(bs, u.object_name)

\* WildcardIterator(...).IterUris()
IterUris(refs) == [i \in 1..Len(refs) |-> refs[i].uri]


(***************************************************************************)
(* Output lines.                                                           *)
(***************************************************************************)
\* A printed line: its kind, the URI string it shows and the size it shows
\* (-1 when it shows none).
Line(kind, text, size) == [kind |-> kind, text |-> text, size |-> size]

BlankLine == Line("blank", <<>>, -1)

\* No storage request fails.
NoFault == [call |-> "none", at |-> <<>>, status |-> 0]

\* The status of the GSResponseError that request `call` on uri_str raises,
\* or 0 when the request succeeds.
ErrorStatus(call, uri_str) ==
  IF fault.call = call /\ fault.at = uri_str THEN fault.status ELSE 0

(***************************************************************************)
(* _PrintInfoAboutBucketListingRef                                         *)
(***************************************************************************)
\* The result of a call: the lines it printed, the tuple it returned and the
\* exception that left it ("none" when it returned).
PrintResult(lines, no, nb, exc) ==
  [lines |-> lines, no |-> no, nb |-> nb, exc |-> exc]

\* PrintLongLong without the recovery: a 403 of the ACL fetch is raised.
PrintLongLong_AclDeniedRaises(uri_str, obj) ==
  LET header == <<Line("object", uri_str, -1)>>
      key_status == ErrorStatus("get_key", uri_str)
      acl_status == ErrorStatus("get_acl", uri_str)
      detail == <<Line("detail", uri_str, obj.size)>>
      denied == <<Line("acl_denied", uri_str, -1)>>
  IN IF key_status # 0
     THEN IF key_status = 403
          THEN PrintResult(header \o denied, 1, obj.size, "none")
          ELSE PrintResult(header, 0, 0, "GSResponseError")
     ELSE IF acl_status # 0
     THEN PrintResult(header \o detail, 0, 0, "GSResponseError")
     ELSE PrintResult(header \o detail \o <<Line("acl", uri_str, -1)>>,
                      1, obj.size, "none")

\* The LONG_LONG branch: the header line, the re-fetched metadata, the ACL;
\* a GSResponseError of status 403 raised by either request is caught.
PrintLongLong(uri_str, obj) ==
  LET header == <<Line("object", uri_str, -1)>>
      key_status == ErrorStatus("get_key", uri_str)
      acl_status == ErrorStatus("get_acl", uri_str)
      detail == <<Line("detail", uri_str, obj.size)>>
      denied == <<Line("acl_denied", uri_str, -1)>>
  IN IF key_status # 0
     THEN IF key_status = 403
          THEN PrintResult(header \o denied, 1, obj.size, "none")
          ELSE PrintResult(header, 0, 0, "GSResponseError")
     ELSE IF acl_status # 0
     THEN IF acl_status = 403
          THEN PrintResult(header \o detail \o denied, 1, obj.size, "none")
          ELSE PrintResult(header \o detail, 0, 0, "GSResponseError")
     ELSE PrintResult(header \o detail \o <<Line("acl", uri_str, -1)>>,
                      1, obj.size, "none")

\* PrintInfoAboutBucketListingRef counting the object's size in SHORT too.
PrintInfoAboutBucketListingRef_ShortCountsBytes(bucket_listing_ref, style) ==
  LET u == bucket_listing_ref.uri
      obj == bucket_listing_ref.key[1]
      uri_str == UriStrForObj(u, obj)
  IN IF style \in {"SHORT", "LONG"}
     THEN PrintResult(<<Line("object", uri_str, obj.size)>>, 1, obj.size, "none")
     ELSE PrintLongLong(uri_str, obj)

PrintInfoAboutBucketListingRef(bucket_listing_ref, style) ==
  LET u == bucket_listing_ref.uri
      obj == bucket_listing_ref.key[1]
      uri_str == UriStrForObj(u, obj)
  IN IF style = "SHORT"
     THEN PrintResult(<<Line("object", uri_str, -1)>>, 1, 0, "none")
     ELSE IF style = "LONG"
     THEN PrintResult(<<Line("object", uri_str, obj.size)>>, 1, obj.size, "none")
     ELSE PrintLongLong(uri_str, obj)

(***************************************************************************)
(* _PrintBucketInfo                                                        *)
(***************************************************************************)
\* The result of a call of _PrintBucketInfo: the lines it printed, the tuple
\* it returned, and the numbers of object enumerations and of bucket
\* metadata requests (location, ACL, default ACL) it made.
BucketResult(lines, no, nb, enums, fetches) ==
  [lines |-> lines, no |-> no, nb |-> nb, enums |-> enums, fetches |-> fetches]

RECURSIVE SumSizes(_)
SumSizes(refs) ==
  IF refs = <<>> THEN 0 ELSE Head(refs).key[1].size + SumSizes(Tail(refs))

\* PrintBucketInfo enumerating the bucket in SHORT too.
PrintBucketInfo_ShortEnumerates(bucket_uri, style) ==
  LET objs == WildcardIterator(
                UriString([bucket_uri EXCEPT !.object_name = <<STAR, STAR>>]))
  IN BucketResult(<<Line("bucket", UriString(bucket_uri),
                         IF style = "SHORT" THEN -1 ELSE SumSizes(objs))>>,
                  Len(objs), SumSizes(objs), 1,
                  IF style = "LONG_LONG" THEN 3 ELSE 0)

PrintBucketInfo(bucket_uri, style) ==
  IF style = "SHORT"
  THEN BucketResult(<<Line("bucket", UriString(bucket_uri), -1)>>, 0, 0, 0, 0)
  ELSE LET objs == WildcardIterator(
                     UriString([bucket_uri EXCEPT !.object_name = <<STAR, STAR>>]))
           bucket_objs == Len(objs)
           bucket_bytes == SumSizes(objs)
       IN BucketResult(<<Line("bucket", UriString(bucket_uri), bucket_bytes)>>,
                       bucket_objs, bucket_bytes, 1,
                       IF style = "LONG" THEN 0 ELSE 3)

\* The loop of RunCommand over the buckets of a provider or -b listing.
RECURSIVE PrintBuckets(_, _)
PrintBuckets(uris, style) ==
  IF uris = <<>> THEN BucketResult(<<>>, 0, 0, 0, 0)
  ELSE LET one == PrintBucketInfo(Head(uris), style)
           more == PrintBuckets(Tail(uris), style)
       IN BucketResult(one.lines \o more.lines, one.no + more.no,
                       one.nb + more.nb, one.enums + more.enums,
                       one.fetches + more.fetches)

(***************************************************************************)
(* _BuildBlrExpansionForUriOnlyBlr                                         *)
(***************************************************************************)
\* BuildBlrExpansionForUriOnlyBlr without the filter on the stripped URI.
BuildBlrExpansionForUriOnlyBlr_NoFilter(blr) ==
  IF ContainsWildcard(GetRStrippedUriString(blr))
  THEN WildcardIterator(GetRStrippedUriString(blr))
  ELSE WildcardIterator(GetRStrippedUriString(blr) \o <<STAR>>)

BuildBlrExpansionForUriOnlyBlr(blr) ==
  LET rstripped_blr == GetRStrippedUriString(blr)
      blr_expansion == WildcardIterator(rstripped_blr \o <<STAR>>)
      Same(cur_blr) == GetRStrippedUriString(cur_blr) = rstripped_blr
  IN IF ContainsWildcard(rstripped_blr)
     THEN WildcardIterator(rstripped_blr)
     ELSE SelectSeq(blr_expansion, Same)


(***************************************************************************)
(* _ExpandUriAndPrintInfo                                                  *)
(***************************************************************************)
\* EnqueuesSubdir without the recursion test.
EnqueuesSubdir_TopLevelOnly(top_level, root_uri, should_recurse) ==
  top_level /\ ~names_bucket(root_uri)

\* EnqueuesSubdir without the bucket test.
EnqueuesSubdir_AnyRoot(top_level, root_uri, should_recurse) ==
  top_level \/ should_recurse

\* EnqueuesSubdir without the top-level test.
EnqueuesSubdir_EveryPass(top_level, root_uri, should_recurse) ==
  ~names_bucket(root_uri) \/ should_recurse

\* Whether a subdirectory met in the inner loop is enqueued for a later pass
\* (rather than printed as a one-line marker).
EnqueuesSubdir(top_level, root_uri, should_recurse) ==
  (top_level /\ ~names_bucket(root_uri)) \/ should_recurse

\* RefToEnqueue without the rewrite of a URI ending in "//".
RefToEnqueue_NoRewrite(cur_blr) == cur_blr

\* The reference enqueued for subdirectory cur_blr: a URI ending in "//" is
\* rewritten to the wildcard "<uri>*".
RefToEnqueue(cur_blr) ==
  IF EndsWithDoubleSlash(GetUriString(cur_blr))
  THEN BucketListingRef(StorageUri(GetUriString(cur_blr) \o <<STAR>>), <<>>, <<>>)
  ELSE cur_blr

\* The line printed for a subdirectory that is not enqueued.
MarkerLine(cur_blr) == Line("marker", GetUriString(cur_blr), -1)

\* The inner loop appending every reference to the queue before looking at
\* what it is.
RECURSIVE ProcessExpansion_EnqueuesAll(_, _)
ProcessExpansion_EnqueuesAll(blr_expansion, acc) ==
  IF blr_expansion = <<>> THEN acc
  ELSE ProcessExpansion_EnqueuesAll(Tail(blr_expansion),
         [acc EXCEPT !.queue = Append(@, Head(blr_expansion)),
                     !.enq = Append(@, Head(blr_expansion))])

\* The inner loop over blr_expansion.  acc holds the output, the totals, the
\* printed_one flag, the queue and the exception raised so far.
RECURSIVE ProcessExpansion(_, _)
ProcessExpansion(blr_expansion, acc) ==
  IF blr_expansion = <<>> \/ acc.exc # "none" THEN acc
  ELSE LET cur_blr == Head(blr_expansion)
           rest == Tail(blr_expansion)
       IN IF HasKey(cur_blr)
          THEN LET r == PrintInfoAboutBucketListingRef(cur_blr, listing_style)
               IN IF r.exc # "none"
                  THEN [acc EXCEPT !.out = @ \o r.lines, !.exc = r.exc]
                  ELSE ProcessExpansion(rest,
                         [acc EXCEPT !.out = @ \o r.lines,
                                     !.num_objs = @ + r.no,
                                     !.num_bytes = @ + r.nb,
                                     !.printed_one = TRUE])
          ELSE IF EnqueuesSubdir(expanding_top_level, uri, recursion_requested)
          THEN ProcessExpansion(rest,
                 [acc EXCEPT !.queue = Append(@, RefToEnqueue(cur_blr)),
                             !.enq = Append(@, RefToEnqueue(cur_blr))])
          ELSE ProcessExpansion(rest,
                 [acc EXCEPT !.out = Append(@, MarkerLine(cur_blr))])

\* Pop taking the last reference, as blrs_to_expand.pop() would.
Pop_Last(queue) ==
  [blr |-> queue[Len(queue)], rest |-> SubSeq(queue, 1, Len(queue) - 1)]

\* Pop taking a reference whose place depends on the run, as popping from an
\* unordered collection would.
Pop_Unordered(queue) ==
  IF run = 2 THEN Pop_Last(queue)
  ELSE [blr |-> Head(queue), rest |-> Tail(queue)]

\* blrs_to_expand.pop(0): the reference popped and the queue left.
Pop(queue) == [blr |-> Head(queue), rest |-> Tail(queue)]

\* NoSuchObject with the wildcard test inverted.
NoSuchObject_Wildcard(n_expanded, root_uri) ==
  n_expanded = 0 /\ ContainsWildcard(UriString(root_uri))

\* NoSuchObject with the count off by one.
NoSuchObject_OffByOne(n_expanded, root_uri) ==
  n_expanded = 1 /\ ~ContainsWildcard(UriString(root_uri))

\* Whether the resolution of a user-given URI fails with 'No such object'.
NoSuchObject(n_expanded, root_uri) ==
  n_expanded = 0 /\ ~ContainsWildcard(UriString(root_uri))

\* PrintsHeader from the first reference expanded on.
PrintsHeader_FromOne(n_expanded, should_recurse) ==
  n_expanded >= 1 \/ should_recurse

\* Whether the header line of a popped subdirectory is printed.
PrintsHeader(n_expanded, should_recurse) == n_expanded > 1 \/ should_recurse

\* The expansion of the popped reference, with the lines printed before the
\* inner loop, the matching-service queries made, and the flags as updated.
PopStep(blr) ==
  LET sep == IF printed_one THEN <<BlankLine>> ELSE <<>>
  IN IF HasKey(blr)
     THEN [expansion |-> <<blr>>, lines |-> sep, asked |-> 0,
           printed_one |-> printed_one, n_expanded |-> num_expanded_blrs,
           exc |-> "none"]
     ELSE IF HasPrefix(blr)
     THEN LET hdr == PrintsHeader(num_expanded_blrs, recursion_requested)
          IN [expansion |->
                WildcardIterator(GetRStrippedUriString(blr) \o <<SLASH, STAR>>),
              lines |-> sep \o (IF hdr
                                THEN <<Line("header", GetUriString(blr), -1)>>
                                ELSE <<>>),
              asked |-> 1,
              printed_one |-> (printed_one \/ hdr),
              n_expanded |-> num_expanded_blrs,
              exc |-> "none"]
     ELSE IF NamesBucket(blr)
     THEN [expansion |-> WildcardIterator(GetUriString(blr) \o <<STAR>>),
           lines |-> sep, asked |-> 1, printed_one |-> printed_one,
           n_expanded |-> num_expanded_blrs, exc |-> "none"]
     ELSE LET exp == BuildBlrExpansionForUriOnlyBlr(blr)
              n == num_expanded_blrs + Len(exp)
          IN [expansion |-> exp, lines |-> sep, asked |-> 1,
              printed_one |-> printed_one, n_expanded |-> n,
              exc |-> IF NoSuchObject(n, uri) THEN "NoSuchObject" ELSE "none"]

\* One iteration of the while loop: pop a reference, expand it, print its
\* objects and enqueue or print its subdirectories.
ExpandPass ==
  /\ pc = "expand"
  /\ blrs_to_expand # <<>>
  /\ \E step \in {PopStep(Pop(blrs_to_expand).blr)} :
       \E acc \in {ProcessExpansion(step.expansion,
                     [out |-> out \o step.lines, num_objs |-> num_objs,
                      num_bytes |-> num_bytes, printed_one |-> step.printed_one,
                      queue |-> Pop(blrs_to_expand).rest, enq |-> enqueued,
                      exc |-> step.exc])} :
         /\ popped' = Append(popped, Pop(blrs_to_expand).blr)
         /\ queries' = queries + step.asked
         /\ unmatched' = IF expanding_top_level /\ step.expansion = <<>>
                         THEN unmatched \cup {UriString(uri)}
                         ELSE unmatched
         /\ num_expanded_blrs' = step.n_expanded
         /\ out' = acc.out
         /\ num_objs' = acc.num_objs
         /\ num_bytes' = acc.num_bytes
         /\ printed_one' = acc.printed_one
         /\ blrs_to_expand' = acc.queue
         /\ enqueued' = acc.enq
         /\ raised' = acc.exc
         /\ pc' = IF acc.exc = "none" THEN "expand" ELSE "failed"
         /\ expanding_top_level' = IF acc.exc = "none" THEN FALSE
                                   ELSE expanding_top_level
  /\ UNCHANGED <<store, listing_style, recursion_requested, get_bucket_info,
                 args_left, uri, total_objs, total_bytes, got_nomatch_errors,
                 lines_before, total_line, returned, bucket_fetches,
                 args_given, fault, run, first>>

(***************************************************************************)
(* RunCommand                                                              *)
(***************************************************************************)
\* The URI strings the next argument may be: 'gs://' stands in for an empty
\* argument list.
\* When the command is run again its argument is that of the first run.
NextArgs ==
  IF ~args_given THEN {<<>>}
  ELSE IF run = 2 THEN {s \in ArgUris : StorageUri(s) = first.uri}
  ELSE ArgUris

\* IsNoMatch without the wildcard test.
IsNoMatch_AnyUri(no, u) == no = 0

\* Whether an argument that contributed `no` objects is recorded as a
\* wildcard that matched nothing.
IsNoMatch(no, u) == no = 0 /\ ContainsWildcard(UriString(u))

\* A provider URI, or a bucket URI under -b: print the info of each bucket
\* the iterator yields and add its totals.
ListBuckets ==
  /\ pc = "args"
  /\ args_left > 0
  /\ \E uri_str \in NextArgs :
       LET u == StorageUri(uri_str)
           pattern == IF names_provider(u) THEN <<STAR>> ELSE UriString(u)
       IN /\ names_provider(u) \/ (names_bucket(u) /\ get_bucket_info)
          /\ unmatched' = IF WildcardIterator(pattern) = <<>>
                          THEN unmatched \cup {UriString(u)}
                          ELSE unmatched
          /\ \E r \in {PrintBuckets(IterUris(WildcardIterator(pattern)),
                                    listing_style)} :
               /\ out' = r.lines
               /\ total_objs' = total_objs + r.no
               /\ total_bytes' = total_bytes + r.nb
               /\ returned' = Append(returned, <<r.no, r.nb>>)
               /\ queries' = r.enums
               /\ bucket_fetches' = r.fetches
          /\ uri' = u
          /\ lines_before' = lines_before + Len(out)
  /\ args_left' = args_left - 1
  /\ popped' = <<>>
  /\ enqueued' = <<>>
  /\ UNCHANGED <<store, listing_style, recursion_requested, get_bucket_info,
                 pc, blrs_to_expand, num_objs, num_bytes, expanding_top_level,
                 printed_one, num_expanded_blrs, got_nomatch_errors, raised,
                 total_line, args_given, fault, run, first>>

\* Any other URI: enter _ExpandUriAndPrintInfo.
StartExpand ==
  /\ pc = "args"
  /\ args_left > 0
  /\ \E uri_str \in NextArgs :
       LET u == StorageUri(uri_str)
       IN /\ ~names_provider(u)
          /\ ~(names_bucket(u) /\ get_bucket_info)
          /\ uri' = u
          /\ blrs_to_expand' = <<BucketListingRef(u, <<>>, <<>>)>>
          /\ enqueued' = <<BucketListingRef(u, <<>>, <<>>)>>
  /\ args_left' = args_left - 1
  /\ pc' = "expand"
  /\ num_objs' = 0
  /\ num_bytes' = 0
  /\ expanding_top_level' = TRUE
  /\ printed_one' = FALSE
  /\ num_expanded_blrs' = 0
  /\ out' = <<>>
  /\ lines_before' = lines_before + Len(out)
  /\ popped' = <<>>
  /\ queries' = 0
  /\ bucket_fetches' = 0
  /\ UNCHANGED <<store, listing_style, recursion_requested, get_bucket_info,
                 total_objs, total_bytes, got_nomatch_errors, raised,
                 total_line, returned, unmatched, args_given, fault, run, first>>

\* The queue is empty: _ExpandUriAndPrintInfo returns (num_objs, num_bytes)
\* and RunCommand records a no-match and adds the totals.
ExpandReturn ==
  /\ pc = "expand"
  /\ blrs_to_expand = <<>>
  /\ pc' = "args"
  /\ got_nomatch_errors' = (got_nomatch_errors \/ IsNoMatch(num_objs, uri))
  /\ total_objs' = total_objs + num_objs
  /\ total_bytes' = total_bytes + num_bytes
  /\ returned' = Append(returned, <<num_objs, num_bytes>>)
  /\ UNCHANGED <<store, listing_style, recursion_requested, get_bucket_info,
                 args_left, uri, blrs_to_expand, num_objs, num_bytes,
                 expanding_top_level, printed_one, num_expanded_blrs, raised,
                 out, lines_before, total_line, popped, enqueued, queries,
                 bucket_fetches, unmatched, args_given, fault, run, first>>

\* PrintsTotal without the count test.
PrintsTotal_AnyCount(n_objs, style) == style # "SHORT"

\* Whether the TOTAL line is printed.
PrintsTotal(n_objs, style) == n_objs # 0 /\ style # "SHORT"

\* After the last argument: the TOTAL line, then the aggregate failure.
Finish ==
  /\ pc = "args"
  /\ args_left = 0
  /\ total_line' = IF PrintsTotal(total_objs, listing_style)
                   THEN <<[objs |-> total_objs, bytes |-> total_bytes]>>
                   ELSE <<>>
  /\ raised' = IF got_nomatch_errors THEN "NoMatch" ELSE "none"
  /\ pc' = IF got_nomatch_errors THEN "failed" ELSE "done"
  /\ UNCHANGED <<store, listing_style, recursion_requested, get_bucket_info,
                 args_left, uri, blrs_to_expand, num_objs, num_bytes,
                 expanding_top_level, printed_one, num_expanded_blrs,
                 total_objs, total_bytes, got_nomatch_errors, out,
                 lines_before, returned, popped, enqueued, queries,
                 bucket_fetches, unmatched, args_given, fault, run, first>>

\* The contents bucket "p" may hold.
Contents == {S \in SUBSET ObjectNames : Cardinality(S) <= MaxObjs}

\* What a run of the command printed and how it ended.
Outcome ==
  [uri |-> uri, out |-> out, total_line |-> total_line, returned |-> returned,
   total_objs |-> total_objs, total_bytes |-> total_bytes,
   raised |-> raised, pc |-> pc]

\* No run of the command has ended.
NoRun == [pc |-> "none"]

\* The state RunCommand starts in, but for the failing storage request.
InitCommand ==
  /\ store \in {[b \in BucketNames |-> IF b = <<"p">> THEN S ELSE {}] :
                  S \in Contents}
  /\ listing_style \in ListingStyles
  /\ recursion_requested \in BOOLEAN
  /\ get_bucket_info \in BOOLEAN
  /\ \E n \in 0..MaxArgs :
       /\ args_given = (n > 0)
       /\ args_left = IF n = 0 THEN 1 ELSE n
  /\ pc = "args"
  /\ uri = StorageUri(<<>>)
  /\ blrs_to_expand = <<>>
  /\ num_objs = 0
  /\ num_bytes = 0
  /\ expanding_top_level = TRUE
  /\ printed_one = FALSE
  /\ num_expanded_blrs = 0
  /\ total_objs = 0
  /\ total_bytes = 0
  /\ got_nomatch_errors = FALSE
  /\ raised = "none"
  /\ out = <<>>
  /\ lines_before = 0
  /\ total_line = <<>>
  /\ returned = <<>>
  /\ popped = <<>>
  /\ enqueued = <<>>
  /\ queries = 0
  /\ bucket_fetches = 0
  /\ unmatched = {}
  /\ run = 1
  /\ first = NoRun

\* No storage request fails.
Init == InitCommand /\ fault = NoFault

\* The failures of one storage request of the LONG_LONG printer: the
\* metadata re-fetch or the ACL fetch of one object of bucket "p" raises a
\* GSResponseError of status 403 (access denied) or 500.
Faults(names) ==
  {[call |-> c, at |-> <<"p", SLASH>> \o n, status |-> st] :
     c \in {"get_key", "get_acl"}, n \in names, st \in {403, 500}}

\* A LONG_LONG command of one argument, one of whose storage requests fails.
InitFault ==
  /\ InitCommand
  /\ listing_style = "LONG_LONG"
  /\ args_given /\ args_left = 1
  /\ fault \in Faults(store[<<"p">>])

Next ==
  \/ ListBuckets
  \/ StartExpand
  \/ ExpandPass
  \/ ExpandReturn
  \/ Finish

Spec == Init /\ [][Next]_vars

\* The command when one storage request of the LONG_LONG printer fails.
SpecFault == InitFault /\ [][Next]_vars

\* A command of one argument.
InitTwice ==
  /\ InitCommand
  /\ args_left = 1
  /\ fault = NoFault

\* The command has ended and is run again: the same command line against
\* the same storage, RunCommand starting afresh.
Rerun ==
  /\ pc \in {"done", "failed"}
  /\ run = 1
  /\ run' = 2
  /\ first' = Outcome
  /\ pc' = "args"
  /\ args_left' = 1
  /\ uri' = StorageUri(<<>>)
  /\ blrs_to_expand' = <<>>
  /\ num_objs' = 0
  /\ num_bytes' = 0
  /\ expanding_top_level' = TRUE
  /\ printed_one' = FALSE
  /\ num_expanded_blrs' = 0
  /\ total_objs' = 0
  /\ total_bytes' = 0
  /\ got_nomatch_errors' = FALSE
  /\ raised' = "none"
  /\ out' = <<>>
  /\ lines_before' = 0
  /\ total_line' = <<>>
  /\ returned' = <<>>
  /\ popped' = <<>>
  /\ enqueued' = <<>>
  /\ queries' = 0
  /\ bucket_fetches' = 0
  /\ unmatched' = {}
  /\ UNCHANGED <<store, listing_style, recursion_requested, get_bucket_info,
                 args_given, fault>>

NextTwice == Next \/ Rerun

\* The command run twice.
SpecTwice == InitTwice /\ [][NextTwice]_vars


(***************************************************************************)
(* Properties.                                                             *)
(***************************************************************************)
\* _ExpandUriAndPrintInfo is about to return (num_objs, num_bytes).
ExpandDone == pc = "expand" /\ blrs_to_expand = <<>>

\* The buckets the bucket part of URI u names.
BucketsNamed(u) == {b \in BucketNames : GlobMatch(u.bucket_name, b)}

\* The URI strings of the objects held by the buckets u names.
ObjectUris(u) ==
  UNION { {b \o <<SLASH>> \o n : n \in store[b]} : b \in BucketsNamed(u) }

\* The URI strings of the objects at the top level of the buckets u names,
\* and of their top-level subdirectories.
TopLevelObjectUris(u) ==
  UNION { {b \o <<SLASH>> \o n : n \in {m \in store[b] : SlashCount(m) = 0}} :
          b \in BucketsNamed(u) }

TopLevelSubdirUris(u) ==
  UNION { {b \o <<SLASH>> \o SubSeq(n, 1, FirstSlash(n)) :
             n \in {m \in store[b] : SlashCount(m) > 0}} :
          b \in BucketsNamed(u) }

\* The positions of `lines` holding a line of one of `kinds`.
LinesOfKind(lines, kinds) == {i \in 1..Len(lines) : lines[i].kind \in kinds}

\* How many times the per-object printer was called for URI string t.
TimesPrinted(t) ==
  Cardinality({i \in LinesOfKind(out, {"object"}) : out[i].text = t})

\* The object and subdirectory-marker lines of `lines`, as <<kind, text>>.
Shown(lines) ==
  LET IsShown(l) == l.kind \in {"object", "marker"}
      sel == SelectSeq(lines, IsShown)
  IN [i \in 1..Len(sel) |-> <<sel[i].kind, sel[i].text>>]

\* What is shown for the references `refs` when none is enqueued.
ShownFor(refs) ==
  [i \in 1..Len(refs) |->
     IF HasKey(refs[i])
     THEN <<"object", UriStrForObj(refs[i].uri, refs[i].key[1])>>
     ELSE <<"marker", GetUriString(refs[i])>>]

\* C1: a recursive listing rooted at a bucket URI calls the per-object
\* printer exactly once for each object of the bucket, for no other URI, and
\* returns the number of objects of the bucket.
C1_RecursiveListsEveryObjectOnce ==
  (ExpandDone /\ recursion_requested /\ names_bucket(uri)) =>
    /\ \A t \in ObjectUris(uri) : TimesPrinted(t) = 1
    /\ \A i \in LinesOfKind(out, {"object"}) : out[i].text \in ObjectUris(uri)
    /\ num_objs = Cardinality(ObjectUris(uri))

C1_Witness ==
  /\ ExpandDone /\ recursion_requested /\ names_bucket(uri)
  /\ num_objs = 3
  /\ \E n \in store[<<"p">>] : SlashCount(n) = 2 /\ ~EndsWithDoubleSlash(SubSeq(n, 1, 3))
  /\ \E n \in store[<<"p">>] : Head(n) = SLASH

\* C2, first part: the queue holds the enqueued references not yet popped,
\* in the order they were enqueued, and the popped ones are the first
\* enqueued, in that order.
QueueIsFifo ==
  /\ Len(popped) <= Len(enqueued)
  /\ popped = SubSeq(enqueued, 1, Len(popped))
  /\ pc = "expand" =>
       blrs_to_expand = SubSeq(enqueued, Len(popped) + 1, Len(enqueued))

\* C2, second part: in a recursive listing (whose root is not the flat "**"
\* wildcard) no object is printed after an object that lies deeper.
DepthOrdered ==
  (recursion_requested /\ ~ContainsDoubleStar(UriString(uri))) =>
    \A i, j \in LinesOfKind(out, {"object"}) :
      i < j => SlashCount(out[i].text) <= SlashCount(out[j].text)

\* C2, third part: one pass shows and enqueues the children of the popped
\* reference in the order the matching service yielded them.
PassInServiceOrder ==
  (pc = "expand" /\ blrs_to_expand # <<>> /\ pc' = "expand") =>
    LET exp == PopStep(Head(blrs_to_expand)).expansion
        enq == EnqueuesSubdir(expanding_top_level, uri, recursion_requested)
        IsShown(r) == HasKey(r) \/ ~enq
        IsQueued(r) == ~HasKey(r) /\ enq
        queued == SelectSeq(exp, IsQueued)
    IN /\ Shown(SubSeq(out', Len(out) + 1, Len(out'))) =
            ShownFor(SelectSeq(exp, IsShown))
       /\ SubSeq(enqueued', Len(enqueued) + 1, Len(enqueued')) =
            [i \in 1..Len(queued) |-> RefToEnqueue(queued[i])]

C3_NonRecursiveBucketListing ==
  (ExpandDone /\ ~recursion_requested /\ names_bucket(uri)) =>
    /\ Len(popped) = 1
    /\ enqueued = popped
    /\ queries = 1
    /\ Shown(out) = ShownFor(WildcardIterator(UriString(uri) \o <<STAR>>))
    /\ {out[i].text : i \in LinesOfKind(out, {"object"})} = TopLevelObjectUris(uri)
    /\ {out[i].text : i \in LinesOfKind(out, {"marker"})} = TopLevelSubdirUris(uri)
    /\ Cardinality(LinesOfKind(out, {"marker"})) = Cardinality(TopLevelSubdirUris(uri))
    /\ LinesOfKind(out, {"header", "blank"}) = {}
    /\ num_objs = Cardinality(TopLevelObjectUris(uri))

C3_Witness ==
  /\ ExpandDone /\ ~recursion_requested /\ names_bucket(uri)
  /\ num_objs = 1
  /\ Cardinality(LinesOfKind(out, {"marker"})) = 2
  /\ Cardinality(store[<<"p">>]) = 3

\* Whether an object or a subdirectory of the bucket of u bears the name of
\* u (without its trailing delimiters).
LiteralMatches(u) ==
  LET nm == RStrip(u.object_name)
  IN \E n \in store[u.bucket_name] :
       \/ n = nm
       \/ Len(n) > Len(nm) /\ SubSeq(n, 1, Len(nm) + 1) = nm \o <<SLASH>>

\* The expander was entered for a wildcard-free object or subdirectory URI
\* that names nothing, and has resolved it.
LiteralMiss ==
  /\ popped # <<>>
  /\ ~names_bucket(uri)
  /\ ~ContainsWildcard(UriString(uri))
  /\ ~LiteralMatches(uri)

\* C4: a wildcard-free object or subdirectory URI that resolves to nothing
\* ends the command at once with 'No such object': nothing is printed for
\* it, no step of the command follows (no later URI, no TOTAL line, no
\* aggregate failure), and 'No such object' is raised in no other case.
C4_NoSuchObjectIsImmediate ==
  /\ LiteralMiss => raised = "NoSuchObject"
  /\ raised = "NoSuchObject" =>
       /\ LiteralMiss
       /\ pc = "failed"
       /\ out = <<>>
       /\ total_line = <<>>
       /\ ~ENABLED Next

C4_Witness ==
  /\ raised = "NoSuchObject"
  /\ lines_before > 0
  /\ Len(returned) = 1


\* The wildcard arguments so far whose resolution yielded no reference.
UnmatchedWildcards == {s \in unmatched : ContainsWildcard(s)}

\* C5: a wildcard URI that matches nothing does not stop the command when it
\* is met; the command ends with the aggregate failure, raised as its last
\* step.
C5_WildcardNoMatchIsDeferred ==
  /\ (UnmatchedWildcards # {} /\ pc \in {"args", "expand"}) => raised = "none"
  /\ raised = "NoMatch" => (pc = "failed" /\ args_left = 0 /\ ~ENABLED Next)
  /\ (UnmatchedWildcards # {} /\ pc \in {"done", "failed"}) =>
       raised \in {"NoMatch", "NoSuchObject"}

\* C6: a command with a wildcard argument that matched nothing does not end
\* successfully, whatever the dispatch mode.
C6_WildcardNoMatchFails ==
  \A s \in unmatched : ContainsWildcard(s) => pc # "done"

\* C7: the aggregate failure is recorded and raised only if some wildcard
\* argument yielded no match at all.
C7_NoMatchOnlyIfNothingMatched ==
  (got_nomatch_errors \/ raised = "NoMatch") => UnmatchedWildcards # {}

\* The expander was entered for a wildcard-free URI naming a bucket that
\* holds no object.
EmptyBucketListing ==
  /\ popped # <<>>
  /\ names_bucket(uri)
  /\ ~ContainsWildcard(UriString(uri))
  /\ store[uri.bucket_name] = {}

\* C8: listing a bucket that holds no object prints nothing, raises no
\* error, records no no-match and returns (0, 0).
C8_EmptyBucketSucceeds ==
  EmptyBucketListing =>
    /\ out = <<>>
    /\ num_objs = 0
    /\ num_bytes = 0
    /\ raised # "NoSuchObject"
    /\ pc # "expand" => returned[Len(returned)] = <<0, 0>>
    /\ Len(returned) = (IF pc = "expand" THEN 0 ELSE 1) =>
         (raised = "none" /\ ~got_nomatch_errors /\ total_line = <<>>)

C8_Witness ==
  /\ EmptyBucketListing
  /\ pc = "done"
  /\ Len(returned) = 1
  /\ recursion_requested
  /\ listing_style = "LONG_LONG"

\* C9: a command with a wildcard-free argument that matched nothing does not
\* end successfully.
C9_LiteralNoMatchFails ==
  \A s \in unmatched : ~ContainsWildcard(s) => pc # "done"

\* C9, amended: a wildcard-free object or subdirectory argument that matched
\* nothing ends the command with 'No such object'; wildcard-free bucket
\* arguments that matched nothing do not make the command fail.
C9_LiteralObjectNoMatchFails ==
  /\ \A s \in unmatched :
       (~ContainsWildcard(s) /\ ~names_bucket(StorageUri(s))) =>
         (pc = "failed" /\ raised = "NoSuchObject")
  /\ ( /\ unmatched # {}
       /\ \A s \in unmatched : ~ContainsWildcard(s) /\ names_bucket(StorageUri(s))
       /\ ~got_nomatch_errors ) => raised = "none"

C9_Witness ==
  /\ raised = "NoSuchObject"
  /\ unmatched = {<<"p", "/">>, <<"p", "/", "a">>}

RECURSIVE SumOf(_, _)
SumOf(pairs, k) ==
  IF pairs = <<>> THEN 0 ELSE Head(pairs)[k] + SumOf(Tail(pairs), k)

\* The command went through its last step without an immediate error.
CommandEnded == pc = "done" \/ (pc = "failed" /\ raised = "NoMatch")

\* C10: the TOTAL line is printed at the end of the command, and only then,
\* exactly when the counts returned for the arguments sum to a nonzero
\* number and the style is not SHORT; its figures are the sums of the
\* returned pairs.
C10_TotalLine ==
  /\ CommandEnded =>
       /\ total_line # <<>> <=>
            (SumOf(returned, 1) # 0 /\ listing_style # "SHORT")
       /\ total_line # <<>> =>
            total_line[1] = [objs |-> SumOf(returned, 1),
                             bytes |-> SumOf(returned, 2)]
  /\ ~CommandEnded => total_line = <<>>

C10_Witness ==
  /\ pc = "done"
  /\ total_line # <<>>
  /\ Len(returned) = 2
  /\ returned[1][1] > 0
  /\ returned[2][2] > 0

\* The running expansion has popped a reference: out, num_objs and
\* num_bytes are those of _ExpandUriAndPrintInfo.
ExpanderRan == popped # <<>>

\* The sizes of the objects whose 'object' lines `lines` holds, summed.
RECURSIVE SizesShown(_)
SizesShown(lines) ==
  IF lines = <<>> THEN 0
  ELSE (IF Head(lines).kind = "object"
        THEN ObjSize(StorageUri(Head(lines).text).object_name)
        ELSE 0) + SizesShown(Tail(lines))

\* The totals of the running expansion against the lines it printed.
TotalsEqualPrinted ==
  ExpanderRan =>
    /\ num_objs = Cardinality(LinesOfKind(out, {"object"}))
    /\ num_bytes = IF listing_style = "SHORT" THEN 0 ELSE SizesShown(out)
    /\ (pc # "expand" /\ raised # "NoSuchObject") =>
         returned[Len(returned)] = <<num_objs, num_bytes>>

\* C11: the totals of the expander equal what it printed: num_objs is the
\* number of calls of the per-object printer (one 'object' line each, in
\* every style), num_bytes is the sum of the sizes of those objects in LONG
\* and LONG_LONG and 0 in SHORT, markers and headers add nothing, and the
\* pair returned is that pair.
C11_TotalsEqualPrinted == []TotalsEqualPrinted

C11_Witness ==
  /\ ExpanderRan /\ pc = "args"
  /\ listing_style = "LONG"
  /\ returned[Len(returned)][1] = 2
  /\ returned[Len(returned)][2] > 2
  /\ LinesOfKind(out, {"marker"}) # {}
  /\ LinesOfKind(out, {"header"}) # {}

\* The ACL fetch of one object is denied (HTTP 403).
AclDenied == fault.call = "get_acl" /\ fault.status = 403

\* The positions of out where the per-object printer was called for the
\* object whose storage request fails.
FaultCalls == {i \in LinesOfKind(out, {"object"}) : out[i].text = fault.at}

\* C12, the printer: with the ACL fetch of one object denied, no error is
\* raised for it, the object's lines are its header, its details and the
\* warning in place of the ACL, every other object has its ACL line, and
\* the totals count every object printed, the denied one included.
AclDeniedIsWarned ==
  (AclDenied /\ ExpanderRan) =>
    /\ raised # "GSResponseError"
    /\ \A i \in LinesOfKind(out, {"object"}) :
         /\ i + 2 <= Len(out)
         /\ out[i + 1] =
              Line("detail", out[i].text,
                   ObjSize(StorageUri(out[i].text).object_name))
         /\ out[i + 2] =
              Line(IF i \in FaultCalls THEN "acl_denied" ELSE "acl",
                   out[i].text, -1)
    /\ num_objs = Cardinality(LinesOfKind(out, {"object"}))
    /\ num_bytes = SizesShown(out)
    /\ pc = "done" =>
         total_line = <<[objs |-> num_objs, bytes |-> num_bytes]>> \/ num_objs = 0

\* C12, the traversal: with the ACL fetch of one object denied, a pass that
\* resolves its reference runs to its end: it shows and counts every object
\* of the expansion, and the expander goes on.
AclDeniedPassContinues ==
  (AclDenied /\ pc = "expand" /\ blrs_to_expand # <<>>
     /\ PopStep(Head(blrs_to_expand)).exc = "none") =>
    LET exp == PopStep(Head(blrs_to_expand)).expansion
        enq == EnqueuesSubdir(expanding_top_level, uri, recursion_requested)
        IsShown(r) == HasKey(r) \/ ~enq
        keys == SelectSeq(exp, HasKey)
    IN /\ pc' = "expand"
       /\ Shown(SubSeq(out', Len(out) + 1, Len(out'))) =
            ShownFor(SelectSeq(exp, IsShown))
       /\ num_objs' = num_objs + Len(keys)
       /\ num_bytes' = num_bytes + SumSizes(keys)

\* C12: in a LONG_LONG listing, an ACL fetch failing with HTTP 403 for one
\* object puts the warning line in place of that object's ACL, the object
\* still counts (1, its size), every object after it is printed and
\* counted, and the command does not fail because of the 403.
C12_AclDeniedContinues ==
  []AclDeniedIsWarned /\ [][AclDeniedPassContinues]_vars

C12_Witness ==
  /\ AclDenied /\ pc = "done"
  /\ \E i \in FaultCalls : \E j \in LinesOfKind(out, {"object"}) : i < j
  /\ total_line # <<>> /\ total_line[1].objs = 3

\* C13: the recovery guards the ACL fetch only.  Once the printer was called
\* for the object whose request fails, the failure is turned into the
\* warning line exactly when it is a 403 of the ACL fetch; any other
\* failure (a 403 of the metadata re-fetch included) is raised and ends the
\* command at once, with no warning line.
C13_OnlyAclDeniedIsCaught ==
  /\ (ExpanderRan /\ FaultCalls # {}) =>
       IF AclDenied
       THEN raised # "GSResponseError"
            /\ LinesOfKind(out, {"acl_denied"}) # {}
       ELSE /\ raised = "GSResponseError"
            /\ pc = "failed"
            /\ LinesOfKind(out, {"acl_denied"}) = {}
            /\ ~ENABLED Next
  /\ LinesOfKind(out, {"acl_denied"}) # {} => AclDenied

\* The last step of the command listed buckets (a provider URI, or a bucket
\* URI under -b) in SHORT style.
TerseBucketListing ==
  /\ listing_style = "SHORT"
  /\ pc = "args"
  /\ popped = <<>>
  /\ returned # <<>>

\* The names of the buckets the argument being processed names.
BucketsListed ==
  IF names_provider(uri) THEN BucketNames ELSE BucketsNamed(uri)

\* What a SHORT bucket listing printed, requested and returned.
TerseBucketInfo ==
  TerseBucketListing =>
    /\ Len(out) = Cardinality(BucketsListed)
    /\ {out[i] : i \in 1..Len(out)} =
         {Line("bucket", b \o <<SLASH>>, -1) : b \in BucketsListed}
    /\ queries = 0
    /\ bucket_fetches = 0
    /\ returned[Len(returned)] = <<0, 0>>
    /\ total_objs = SumOf(SubSeq(returned, 1, Len(returned) - 1), 1)
    /\ total_bytes = SumOf(SubSeq(returned, 1, Len(returned) - 1), 2)

\* C14: in SHORT style the bucket summarizer prints the bucket URI only,
\* enumerates no object, fetches no bucket metadata and returns (0, 0)
\* whatever the bucket holds: a SHORT provider or -b listing prints exactly
\* one line per bucket and adds nothing to the command totals.
C14_TerseBucketInfo == []TerseBucketInfo

C14_Witness ==
  /\ TerseBucketListing
  /\ get_bucket_info
  /\ Len(out) = 2
  /\ Cardinality(store[<<"p">>]) = 3
  /\ Len(returned) = 2 /\ returned[1][1] = 3

\* The command was run twice and its second run has ended.
RanTwice == run = 2 /\ pc \in {"done", "failed"}

RootResolution ==
  IF names_bucket(uri) THEN <<>>
  ELSE BuildBlrExpansionForUriOnlyBlr(BucketListingRef(uri, <<>>, <<>>))

\* Whether the header line of reference blr was printed.
HeaderShown(blr) ==
  \E i \in 1..Len(out) : out[i] = Line("header", GetUriString(blr), -1)

HeaderIffSeveralRefs ==
  ExpanderRan =>
    /\ \A k \in 1..Len(popped) :
         HasPrefix(popped[k]) =>
           (HeaderShown(popped[k]) <=>
              (recursion_requested \/ Len(RootResolution) > 1))
    /\ \A i \in LinesOfKind(out, {"header"}) :
         \E k \in 1..Len(popped) :
           HasPrefix(popped[k]) /\ out[i].text = GetUriString(popped[k])

C17_BlankOnlyBeforeHeader ==
  ExpanderRan =>
    \A i \in LinesOfKind(out, {"blank"}) :
      i < Len(out) /\ out[i + 1].kind = "header"

\* The subdirectory references of the root resolution, as enqueued.
RootSubdirs ==
  LET subdirs == SelectSeq(RootResolution, HasPrefix)
  IN [i \in 1..Len(subdirs) |-> RefToEnqueue(subdirs[i])]

\* C18, the queue: in a non-recursive listing the references ever enqueued
\* are the root and, when the root is not a bucket URI, the subdirectories
\* its resolution yielded, all of them enqueued by the first pass.
OnlyFirstPassEnqueues ==
  (ExpanderRan /\ ~recursion_requested) =>
    /\ enqueued = <<BucketListingRef(uri, <<>>, <<>>)>> \o RootSubdirs
    /\ Len(popped) <= 1 + Len(RootSubdirs)

\* C18, the later passes: in a non-recursive listing a pass after the first
\* enqueues nothing and shows every child of the popped reference, each
\* subdirectory as a marker.
LaterPassShowsMarkers ==
  (pc = "expand" /\ blrs_to_expand # <<>> /\ ~recursion_requested
     /\ ~expanding_top_level) =>
    LET exp == PopStep(Head(blrs_to_expand)).expansion
    IN /\ enqueued' = enqueued
       /\ blrs_to_expand' = Tail(blrs_to_expand)
       /\ Shown(SubSeq(out', Len(out) + 1, Len(out'))) = ShownFor(exp)

\* C18: in a non-recursive listing subdirectories are enqueued by the first
\* pass only, and only when the root is not a bucket URI; every later pass
\* prints each subdirectory child as a marker and enqueues none, so the
\* listing goes at most one level below the references the root matched.
C18_OnlyFirstPassIsTopLevel ==
  []OnlyFirstPassEnqueues /\ [][LaterPassShowsMarkers]_vars

C18_Witness ==
  /\ ExpandDone /\ ~recursion_requested
  /\ Len(popped) = 3
  /\ LinesOfKind(out, {"marker"}) # {}
  /\ \E k \in 2..3 : ~HasPrefix(popped[k])

\* Wildcard-free object and subdirectory URIs of bucket "p": every leading
\* part of an object name that is more than delimiters.
LiteralUris ==
  LET parts == UNION { {SubSeq(n, 1, k) : k \in 1..Len(n)} : n \in ObjectNames }
  IN {StorageUri(<<"p", SLASH>> \o m) : m \in {x \in parts : RStrip(x) # <<>>}}

\* The object and the subdirectory of the bucket of u that bear the name of
\* u without its trailing delimiters: the object first.
NamedBy(u) ==
  LET nm == RStrip(u.object_name)
      b == u.bucket_name
      IsUnder(n) == Len(n) > Len(nm) /\ SubSeq(n, 1, Len(nm) + 1) = nm \o <<SLASH>>
  IN (IF nm \in store[b] THEN <<KeyRef(b, nm)>> ELSE <<>>)
     \o (IF \E n \in store[b] : IsUnder(n)
         THEN <<PrefixRef(b, nm \o <<SLASH>>)>> ELSE <<>>)

\* The resolution of the reference of URI u returns the references NamedBy(u),
\* at most two, and none of the other references that match(trimmed + '*')
\* yields.
ResolvesToNamed(u) ==
  LET res == BuildBlrExpansionForUriOnlyBlr(BucketListingRef(u, <<>>, <<>>))
      all == WildcardIterator(RStrip(UriString(u)) \o <<STAR>>)
  IN /\ res = NamedBy(u)
     /\ Len(res) <= 2
     /\ \A i \in 1..Len(all) :
          GetRStrippedUriString(all[i]) # RStrip(UriString(u)) =>
            \A j \in 1..Len(res) : res[j] # all[i]

\* The root is a wildcard-free object or subdirectory URI and the first
\* pass has resolved it.
LiteralRootResolved ==
  /\ ExpanderRan
  /\ ~names_bucket(uri)
  /\ ~ContainsWildcard(UriString(uri))

\* The resolution of wildcard-free references against the storage.
AmbiguousRootResolution ==
  /\ (pc = "args" /\ returned = <<>>) => \A u \in LiteralUris : ResolvesToNamed(u)
  /\ (LiteralRootResolved /\ Len(popped) = 1) =>
       /\ uri \in LiteralUris
       /\ ResolvesToNamed(uri)
       /\ num_expanded_blrs = Len(NamedBy(uri))
       /\ ~recursion_requested =>
            /\ Shown(out) = ShownFor(SelectSeq(NamedBy(uri), HasKey))
            /\ raised = "none" =>
                 enqueued = <<BucketListingRef(uri, <<>>, <<>>)>> \o
                            SelectSeq(NamedBy(uri), HasPrefix)

\* C19: the resolution of a wildcard-free unresolved reference returns the
\* references of match(trimmed + '*') whose trimmed URI is the trimmed input
\* URI, in the service's order: the object of that name, then the
\* subdirectory of that name, whichever exist (none, one or both); names
\* that only begin with the input name are discarded.  Checked for every
\* wildcard-free URI before the command starts, and for the root URI once
\* the first pass has resolved it.
C19_AmbiguousRootResolution == []AmbiguousRootResolution

C19_Witness ==
  /\ LiteralRootResolved /\ ExpandDone
  /\ num_expanded_blrs = 2
  /\ <<"a", "b">> \in store[<<"p">>]
  /\ Len(WildcardIterator(<<"p", SLASH, "a", STAR>>)) = 3

\* The URI strings of the subdirectories of the buckets u names, at every
\* depth: each leading part of an object name that ends with a delimiter.
SubdirUris(u) ==
  UNION { UNION { {b \o <<SLASH>> \o SubSeq(n, 1, j) :
                     j \in {k \in 1..Len(n) : n[k] = SLASH}} :
                  n \in store[b] } :
          b \in BucketsNamed(u) }

\* C20, the measure: no reference is enqueued twice (a double-slash
\* subdirectory is enqueued as '<uri>*', never as itself), so the passes
\* number at most one per subdirectory of the storage plus one; when the
\* queue is empty the totals are returned.
PassesAreBounded ==
  ExpanderRan =>
    /\ \A i, j \in 1..Len(enqueued) : i # j => enqueued[i] # enqueued[j]
    /\ \A i \in 2..Len(enqueued) :
         /\ ~EndsWithDoubleSlash(GetUriString(enqueued[i]))
         /\ HasPrefix(enqueued[i]) \/ ContainsWildcard(GetUriString(enqueued[i]))
    /\ Len(popped) <= 1 + Cardinality(SubdirUris(uri))
    /\ ExpandDone => ENABLED ExpandReturn

\* C20, the progress: every step of the expander either takes one reference
\* off the queue for good, or returns the totals.
PassPopsOne ==
  pc = "expand" =>
    \/ /\ blrs_to_expand # <<>>
       /\ popped' = Append(popped, Head(blrs_to_expand))
       /\ pc' = "failed" \/
            \A i \in 1..Len(blrs_to_expand') :
              blrs_to_expand'[i] # Head(blrs_to_expand)
    \/ /\ blrs_to_expand = <<>>
       /\ pc' = "args"
       /\ returned' = Append(returned, <<num_objs, num_bytes>>)

\* C20: the expander terminates on every storage content, names beginning
\* with '/' or holding '//' included: each pass takes one reference off the
\* queue, no reference is expanded into itself or enqueued twice, the
\* passes are bounded by the number of subdirectories of the storage, and
\* the empty queue returns the totals.
C20_ExpanderTerminates ==
  []PassesAreBounded /\ [][PassPopsOne]_vars

C20_Witness ==
  /\ pc = "args" /\ ExpanderRan /\ recursion_requested
  /\ Len(popped) = 1 + Cardinality(SubdirUris(uri))
  /\ Cardinality({k \in 1..Len(popped) :
                    k > 1 /\ ContainsWildcard(GetUriString(popped[k]))}) = 2
  /\ returned[Len(returned)][1] = 3

\* Reference blr is the wildcard reference a double-slash subdirectory is
\* rewritten to: no key, no prefix, a URI ending in "//*".
IsRewritten(blr) ==
  LET t == GetUriString(blr)
  IN /\ ~HasKey(blr) /\ ~HasPrefix(blr)
     /\ Len(t) >= 3 /\ t[Len(t)] = STAR
     /\ EndsWithDoubleSlash(SubSeq(t, 1, Len(t) - 1))

\* No reference enqueued so far, hence none in the queue and none popped,
\* carries a key: the first is the unresolved root, the others are
\* subdirectory prefixes or rewritten double-slash references.
QueueHoldsNoKey ==
  pc = "expand" =>
    /\ enqueued # <<>>
    /\ enqueued[1] = BucketListingRef(uri, <<>>, <<>>)
    /\ \A i \in 2..Len(enqueued) :
         HasPrefix(enqueued[i]) \/ IsRewritten(enqueued[i])
    /\ \A i \in 1..Len(enqueued) : ~HasKey(enqueued[i])
    /\ \A i \in 1..Len(blrs_to_expand) : ~HasKey(blrs_to_expand[i])
    /\ \A i \in 1..Len(popped) : ~HasKey(popped[i])

\* A pass that ends without an exception prints every object of its
\* expansion itself: as many object lines as the expansion holds keys, and
\* the expansion is not the popped reference.
ObjectsPrintedWhenFound ==
  (pc = "expand" /\ blrs_to_expand # <<>> /\ pc' = "expand") =>
    LET exp == PopStep(Head(blrs_to_expand)).expansion
        new == SubSeq(out', Len(out) + 1, Len(out'))
    IN /\ ~HasKey(Head(blrs_to_expand))
       /\ Cardinality(LinesOfKind(new, {"object"})) = Len(SelectSeq(exp, HasKey))
       /\ \A i \in 1..Len(blrs_to_expand') : ~HasKey(blrs_to_expand'[i])

\* C21: the traversal queue never holds a reference with a resolved key: it
\* holds the unresolved root, subdirectory prefixes and rewritten
\* double-slash wildcard references only, so no popped reference takes the
\* 'has a key' branch and every object is printed in the pass that found it.
C21_QueueHoldsNoKey ==
  []QueueHoldsNoKey /\ [][ObjectsPrintedWhenFound]_vars

C21_Witness ==
  /\ ExpandDone /\ recursion_requested
  /\ \E i, j \in 2..Len(popped) : HasPrefix(popped[i]) /\ IsRewritten(popped[j])
  /\ num_objs = 3
  /\ Len(enqueued) = Len(popped)

=============================================================================
